---- MODULE Spec2Model ----
(***************************************************************************)
(* Model of the elevator telemetry service (src/elevators/main.py).        *)
(*                                                                         *)
(* The two tables "states" and "demands" are sequences of rows in rowid    *)
(* order.  Each endpoint is an action; get_dataset, which issues one query *)
(* for the demands and then one query per demand, is modelled one query at *)
(* a time, so that requests served by other worker threads can fall        *)
(* between its queries.                                                    *)
(*                                                                         *)
(*   Spec      requests are served one at a time (the test client)         *)
(*   SpecConc  requests of other threads interleave with a running         *)
(*             get_dataset (sync endpoints run in the thread pool)         *)
(***************************************************************************)
EXTENDS Integers, Sequences, FiniteSets

\* ---------------------------------------------------------------- bounds
\* Total number of rows the store may hold (states plus demands).
MaxRecords == 3

\* Values that clients submit.  Two floors tell rows apart; two timestamps
\* give "earlier", "equal" and "later" between any two rows.
Floors == {1, 2}
Times == {0, 1}

VARIABLES
    states,        \* table "states": rows in rowid order
    demands,       \* table "demands": rows in rowid order
    tieDesc,       \* engine: whether ORDER BY emits rows of equal key in
                   \* descending rowid order (SQL leaves it to the engine)
    pc,            \* get_dataset: "idle" or "loop"
    loopDemands,   \* get_dataset: demands the for loop has still to visit
    dataset,       \* get_dataset: local list "dataset"
    request,       \* the latest request received: endpoint and payload
    response,      \* body returned by the latest completed request
    instants,      \* history: store sizes that existed during the latest get_dataset
    builds         \* history: results of the get_dataset calls since the last write

vars == <<states, demands, tieDesc, pc, loopDemands, dataset, request, response,
          instants, builds>>

\* ------------------------------------------------------------------ rows
\* class State(Base)
State(i, f, t, v, m) ==
    [id |-> i, current_floor |-> f, state_time |-> t, vacant |-> v, mooving |-> m]

\* class Demand(Base)
Demand(i, f, t) == [id |-> i, demand_floor |-> f, demand_time |-> t]

\* Python's None, the result of .first() on an empty result
None == [id |-> 0]

NoResponse == [op |-> "none", body |-> <<>>]

Range(s) == {s[i] : i \in DOMAIN s}

\* --------------------------------------------------------------- queries
\* ORDER BY <time> ASC over a set of rows; rows of equal time come out in the
\* engine's order (ascending or descending rowid).
OrderedBefore(x, y, tx, ty, desc) ==
    \/ tx < ty
    \/ tx = ty /\ (IF desc THEN x.id >= y.id ELSE x.id <= y.id)

\* Variant of OrderByDemandTime: the order_by is missing, rows come in rowid order.
RECURSIVE DemandsUnordered(_, _)
DemandsUnordered(rows, desc) ==
    IF rows = {} THEN <<>>
    ELSE LET first == CHOOSE x \in rows : \A y \in rows : x.id <= y.id
         IN  <<first>> \o DemandsUnordered(rows \ {first}, desc)

RECURSIVE OrderByDemandTime(_, _)
\* db.query(Demand).order_by(Demand.demand_time).all()
OrderByDemandTime(rows, desc) ==
    IF rows = {} THEN <<>>
    ELSE LET first == CHOOSE x \in rows : \A y \in rows :
                          OrderedBefore(x, y, x.demand_time, y.demand_time, desc)
         IN  <<first>> \o OrderByDemandTime(rows \ {first}, desc)

\* Variant of RestingFilter: the bound on state_time is missing.
RestingFilterAnyTime(s, demand) ==
    /\ s.vacant = TRUE
    /\ s.mooving = FALSE

\* Variant of RestingFilter: the test of mooving is missing.
RestingFilterVacantOnly(s, demand) ==
    /\ s.state_time <= demand.demand_time
    /\ s.vacant = TRUE

\* Variant of RestingFilter: state_time < demand_time instead of <=.
RestingFilterStrict(s, demand) ==
    /\ s.state_time < demand.demand_time
    /\ s.vacant = TRUE
    /\ s.mooving = FALSE

\* .filter(State.state_time <= demand.demand_time, State.vacant == True,
\*         State.mooving == False)
RestingFilter(s, demand) ==
    /\ s.state_time <= demand.demand_time
    /\ s.vacant = TRUE
    /\ s.mooving = FALSE

\* Variant of OrderByStateTimeDesc: ascending instead of descending.
RECURSIVE OrderByStateTimeAsc(_, _)
OrderByStateTimeAsc(rows, desc) ==
    IF rows = {} THEN <<>>
    ELSE LET first == CHOOSE x \in rows : \A y \in rows :
                          OrderedBefore(x, y, x.state_time, y.state_time, desc)
         IN  <<first>> \o OrderByStateTimeAsc(rows \ {first}, desc)

RECURSIVE OrderByStateTimeDesc(_, _)
\* .order_by(State.state_time.desc())
OrderByStateTimeDesc(rows, desc) ==
    IF rows = {} THEN <<>>
    ELSE LET first == CHOOSE x \in rows : \A y \in rows :
                          OrderedBefore(x, y, y.state_time, x.state_time, desc)
         IN  <<first>> \o OrderByStateTimeDesc(rows \ {first}, desc)

\* .first()
First(rows) == IF rows = <<>> THEN None ELSE Head(rows)

\* the query of lines 166-170 against the rows stateRows
RestingState(stateRows, demand, desc) ==
    First(OrderByStateTimeDesc({s \in Range(stateRows) : RestingFilter(s, demand)},
                               desc))

\* the dict built at lines 172-177
Record(resting_state, demand) ==
    [resting_floor |-> resting_state.current_floor,
     resting_time  |-> resting_state.state_time,
     demand_floor  |-> demand.demand_floor,
     demand_time   |-> demand.demand_time]

\* one pass of the for loop body: lines 165-178
LoopBody(acc, stateRows, demand, desc) ==
    LET resting_state == RestingState(stateRows, demand, desc)
    IN  IF resting_state # None THEN Append(acc, Record(resting_state, demand))
        ELSE acc

RECURSIVE ResolveLoop(_, _, _, _)
ResolveLoop(acc, stateRows, demandList, desc) ==
    IF demandList = <<>> THEN acc
    ELSE ResolveLoop(LoopBody(acc, stateRows, Head(demandList), desc),
                     stateRows, Tail(demandList), desc)

\* get_dataset as a function of one store content
Resolve(stateRows, demandRows) ==
    ResolveLoop(<<>>, stateRows,
                OrderByDemandTime(Range(demandRows), tieDesc), tieDesc)

\* ----------------------------------------------------------------- state
StateRows == [id : 1 .. MaxRecords, current_floor : Floors, state_time : Times,
              vacant : BOOLEAN, mooving : BOOLEAN]

DemandRows == [id : 1 .. MaxRecords, demand_floor : Floors, demand_time : Times]

Records == [resting_floor : Floors, resting_time : Times,
            demand_floor : Floors, demand_time : Times]

\* the shape of the state: the tables hold rows whose id is their position
TypeOK ==
    /\ states \in Seq(StateRows) /\ \A i \in DOMAIN states : states[i].id = i
    /\ demands \in Seq(DemandRows) /\ \A i \in DOMAIN demands : demands[i].id = i
    /\ Len(states) + Len(demands) <= MaxRecords
    /\ tieDesc \in BOOLEAN
    /\ pc \in {"idle", "loop"}
    /\ loopDemands \in Seq(DemandRows)
    /\ dataset \in Seq(Records)
    /\ request.op \in {"none", "create_state", "create_demand", "read_states",
                       "read_demands", "get_dataset"}
    /\ response.op \in {"none", "create_state", "create_demand", "read_states",
                        "read_demands", "get_dataset"}
    /\ instants \subseteq (0 .. MaxRecords) \X (0 .. MaxRecords)
    /\ builds \in Seq(Seq(Records)) /\ Len(builds) <= 2

\* ------------------------------------------------------------------ init
Init ==
    /\ states = <<>>
    /\ demands = <<>>
    /\ tieDesc \in BOOLEAN
    /\ pc = "idle"
    /\ loopDemands = <<>>
    /\ dataset = <<>>
    /\ request = [op |-> "none"]
    /\ response = NoResponse
    /\ instants = {}
    /\ builds = <<>>

StoreSize == <<Len(states), Len(demands)>>

\* history kept by a write: the store has one more size, and the results of
\* earlier builds no longer describe the store
WriteHistory(size) ==
    /\ instants' = IF pc = "loop" THEN instants \cup {size} ELSE {}
    /\ builds' = <<>>

\* --------------------------------------------------------------- actions
\* Variant of create_state: the new row replaces the table's last row.
create_state_replacing(f, t, v, m) ==
    /\ Len(states) + Len(demands) < MaxRecords
    /\ LET new_state == State(IF states = <<>> THEN 1 ELSE Len(states), f, t, v, m)
       IN  /\ states' = IF states = <<>> THEN <<new_state>>
                         ELSE [states EXCEPT ![Len(states)] = new_state]
           /\ response' = [op |-> "create_state", body |-> new_state]
    /\ request' = [op |-> "create_state", current_floor |-> f, state_time |-> t,
                   vacant |-> v, mooving |-> m]
    /\ WriteHistory(<<Len(states) + 1, Len(demands)>>)
    /\ UNCHANGED <<demands, tieDesc, pc, loopDemands, dataset>>

\* POST /state
create_state(f, t, v, m) ==
    /\ Len(states) + Len(demands) < MaxRecords
    /\ LET new_state == State(Len(states) + 1, f, t, v, m)
       IN  /\ states' = Append(states, new_state)
           /\ response' = [op |-> "create_state", body |-> new_state]
    /\ request' = [op |-> "create_state", current_floor |-> f, state_time |-> t,
                   vacant |-> v, mooving |-> m]
    /\ WriteHistory(<<Len(states) + 1, Len(demands)>>)
    /\ UNCHANGED <<demands, tieDesc, pc, loopDemands, dataset>>

\* POST /demand
create_demand(f, t) ==
    /\ Len(states) + Len(demands) < MaxRecords
    /\ LET new_demand == Demand(Len(demands) + 1, f, t)
       IN  /\ demands' = Append(demands, new_demand)
           /\ response' = [op |-> "create_demand", body |-> new_demand]
    /\ request' = [op |-> "create_demand", demand_floor |-> f, demand_time |-> t]
    /\ WriteHistory(<<Len(states), Len(demands) + 1>>)
    /\ UNCHANGED <<states, tieDesc, pc, loopDemands, dataset>>

\* GET /state
read_states ==
    /\ request' = [op |-> "read_states"]
    /\ response' = [op |-> "read_states", body |-> states]
    /\ instants' = IF pc = "loop" THEN instants ELSE {}
    /\ UNCHANGED <<states, demands, tieDesc, pc, loopDemands,
                   dataset, builds>>

\* GET /demand
read_demands ==
    /\ request' = [op |-> "read_demands"]
    /\ response' = [op |-> "read_demands", body |-> demands]
    /\ instants' = IF pc = "loop" THEN instants ELSE {}
    /\ UNCHANGED <<states, demands, tieDesc, pc, loopDemands,
                   dataset, builds>>

\* GET /dataset, lines 161-163: the demands query
get_dataset_begin ==
    /\ pc = "idle"
    /\ pc' = "loop"
    /\ dataset' = <<>>
    /\ loopDemands' = OrderByDemandTime(Range(demands), tieDesc)
    /\ request' = [op |-> "get_dataset"]
    /\ response' = NoResponse
    /\ instants' = {StoreSize}
    /\ UNCHANGED <<states, demands, tieDesc, builds>>

\* Variant of get_dataset_step: among the latest resting states of equal
\* state_time the query returns any one, not the same one every time.
get_dataset_step_any_tie ==
    /\ pc = "loop"
    /\ loopDemands # <<>>
    /\ LET demand == Head(loopDemands)
           found == {s \in Range(states) : RestingFilter(s, demand)}
           latest == {s \in found : \A y \in found : y.state_time <= s.state_time}
       IN  IF latest = {} THEN dataset' = dataset
           ELSE \E s \in latest : dataset' = Append(dataset, Record(s, demand))
    /\ loopDemands' = Tail(loopDemands)
    /\ UNCHANGED <<states, demands, tieDesc, pc, request, response, instants,
                   builds>>

\* GET /dataset, lines 164-178: one iteration, with its states query
get_dataset_step ==
    /\ pc = "loop"
    /\ loopDemands # <<>>
    /\ dataset' = LoopBody(dataset, states, Head(loopDemands), tieDesc)
    /\ loopDemands' = Tail(loopDemands)
    /\ UNCHANGED <<states, demands, tieDesc, pc, request, response, instants,
                   builds>>

\* GET /dataset, line 179
get_dataset_return ==
    /\ pc = "loop"
    /\ loopDemands = <<>>
    /\ pc' = "idle"
    /\ response' = [op |-> "get_dataset", body |-> dataset]
    /\ builds' = IF Len(builds) < 2 THEN Append(builds, dataset)
                 ELSE <<builds[2], dataset>>
    /\ dataset' = <<>>
    /\ UNCHANGED <<states, demands, tieDesc, loopDemands, request, instants>>

\* a request other than get_dataset, handled in one step
Request ==
    \/ \E f \in Floors, t \in Times, v \in BOOLEAN, m \in BOOLEAN :
           create_state(f, t, v, m)
    \/ \E f \in Floors, t \in Times : create_demand(f, t)
    \/ read_states
    \/ read_demands

\* requests served one at a time: no other request while get_dataset runs
Next ==
    \/ \E f \in Floors, t \in Times, v \in BOOLEAN, m \in BOOLEAN :
           pc = "idle" /\ create_state(f, t, v, m)
    \/ \E f \in Floors, t \in Times : pc = "idle" /\ create_demand(f, t)
    \/ pc = "idle" /\ read_states
    \/ pc = "idle" /\ read_demands
    \/ get_dataset_begin
    \/ get_dataset_step
    \/ get_dataset_return

Spec == Init /\ [][Next]_vars

\* requests of other threads between the queries of a running get_dataset
NextConc ==
    \/ Request
    \/ get_dataset_begin
    \/ get_dataset_step
    \/ get_dataset_return

SpecConc == Init /\ [][NextConc]_vars

\* ---------------------------------------------------------- claims: helpers
IsResting(s) == s.vacant = TRUE /\ s.mooving = FALSE

\* a get_dataset call has returned and nothing was served since
Returned == response.op = "get_dataset"

\* the records of the running or the just returned get_dataset call
Emitted == IF Returned THEN response.body ELSE dataset

\* the stored resting states at or before the demand's time
Qualifying(d) ==
    {s \in Range(states) : IsResting(s) /\ s.state_time <= d.demand_time}

IsPrefix(s, t) == Len(s) <= Len(t) /\ \A i \in DOMAIN s : s[i] = t[i]

\* ------------------------------------------------------------------- C1
\* C1: every emitted record carries the most recent resting time: no stored
\* resting state lies strictly after the record's resting_time and at or
\* before its demand_time.
C1_MostRecentSelection ==
    \A i \in DOMAIN Emitted :
        ~ \E s \in Range(states) :
              /\ IsResting(s)
              /\ Emitted[i].resting_time < s.state_time
              /\ s.state_time <= Emitted[i].demand_time

\* a returned record for a demand with two resting states of different times
\* at or before it
C1_Witness ==
    /\ Returned
    /\ \E i \in DOMAIN response.body : \E s1, s2 \in Range(states) :
           /\ IsResting(s1) /\ IsResting(s2)
           /\ s1.state_time < s2.state_time
           /\ s2.state_time <= response.body[i].demand_time
           /\ response.body[i].resting_time = s2.state_time

\* ------------------------------------------------------------------- C2
\* C2: in every emitted record resting_time <= demand_time.
C2_NoFutureState ==
    \A i \in DOMAIN Emitted : Emitted[i].resting_time <= Emitted[i].demand_time

\* a returned record for a demand, with a resting state stored that is later
\* than the demand
C2_Witness ==
    /\ Returned
    /\ \E i \in DOMAIN response.body : \E s \in Range(states) :
           IsResting(s) /\ s.state_time > response.body[i].demand_time

\* ------------------------------------------------------------------- C3
\* C3: resting_floor and resting_time of every emitted record are those of a
\* stored state that is vacant and not moving.
C3_Filtering ==
    \A i \in DOMAIN Emitted : \E s \in Range(states) :
        /\ IsResting(s)
        /\ s.current_floor = Emitted[i].resting_floor
        /\ s.state_time = Emitted[i].resting_time

\* a returned record whose demand has a later state, at or before it, that is
\* occupied or moving
C3_Witness ==
    /\ Returned
    /\ \E i \in DOMAIN response.body : \E s \in Range(states) :
           /\ ~ IsResting(s)
           /\ response.body[i].resting_time < s.state_time
           /\ s.state_time <= response.body[i].demand_time

\* ------------------------------------------------------------------- C4
\* C4: a returned dataset holds, for every floor and time, as many records as
\* there are stored demands of that floor and time with a resting state at or
\* before them: one record per such demand, none for the others.
C4_OneRecordPerQualifyingDemand ==
    Returned =>
        /\ \A f \in Floors, t \in Times :
               Cardinality({i \in DOMAIN response.body :
                               /\ response.body[i].demand_floor = f
                               /\ response.body[i].demand_time = t})
             = Cardinality({d \in Range(demands) :
                               /\ d.demand_floor = f
                               /\ d.demand_time = t
                               /\ Qualifying(d) # {}})
        /\ Len(response.body)
             = Cardinality({d \in Range(demands) : Qualifying(d) # {}})

\* a returned dataset with a record for one demand and none for another of the
\* same floor that has no resting state before it
C4_Witness ==
    /\ Returned
    /\ Len(response.body) = 1
    /\ \E d1, d2 \in Range(demands) :
           /\ d1.demand_floor = d2.demand_floor
           /\ Qualifying(d1) = {}
           /\ Qualifying(d2) # {}

\* ------------------------------------------------------------------- C5
\* C5: the emitted records are in non-decreasing demand_time order.
C5_AscendingDemandTime ==
    \A i, j \in DOMAIN Emitted :
        i < j => Emitted[i].demand_time <= Emitted[j].demand_time

\* two records returned for demands that were appended latest first
C5_Witness ==
    /\ Returned
    /\ Len(response.body) = 2
    /\ Len(demands) = 2
    /\ demands[1].demand_time > demands[2].demand_time

\* ------------------------------------------------------------------- C6
IsTagged(r) == {"time", "event_type_is_resting"} \subseteq DOMAIN r

\* C6: GET /dataset returns tagged events (time, event_type_is_resting) in
\* non-decreasing time order, one resting entry per stored resting state and
\* one demand entry per stored demand.
C6_TaggedEventStream ==
    Returned =>
        /\ \A i \in DOMAIN response.body : IsTagged(response.body[i])
        /\ \A i, j \in DOMAIN response.body :
               i < j => response.body[i].time <= response.body[j].time
        /\ Cardinality({i \in DOMAIN response.body :
                           response.body[i].event_type_is_resting})
             = Cardinality({s \in Range(states) : IsResting(s)})
        /\ Cardinality({i \in DOMAIN response.body :
                           ~ response.body[i].event_type_is_resting})
             = Len(demands)

\* ------------------------------------------------------------------- C7
\* C7: what a get_dataset call returns is the resolve of the store as it
\* was at one single instant between the call's start and its return.
C7_ConsistentSnapshot ==
    Returned =>
        \E size \in instants :
            response.body = Resolve(SubSeq(states, 1, size[1]),
                                    SubSeq(demands, 1, size[2]))

\* ------------------------------------------------------------------- C8
\* C8: a create_demand adds one demand and one state to the store.
C8_DemandGeneratesState ==
    [][(response'.op = "create_demand" /\ demands' # demands) =>
           /\ Len(demands') = Len(demands) + 1
           /\ Len(states') = Len(states) + 1]_vars

C10_AppendOnly ==
    [][/\ IsPrefix(states, states')
       /\ IsPrefix(demands, demands')
       /\ Len(states') + Len(demands') <= Len(states) + Len(demands) + 1
       /\ (request'.op = "create_state" /\ response'.op = "create_state") =>
              /\ Len(states') = Len(states) + 1
              /\ LET row == states'[Len(states')]
                 IN  /\ row.current_floor = request'.current_floor
                     /\ row.state_time = request'.state_time
                     /\ row.vacant = request'.vacant
                     /\ row.mooving = request'.mooving
                     /\ response'.body = row
       /\ (request'.op = "create_demand" /\ response'.op = "create_demand") =>
              /\ Len(demands') = Len(demands) + 1
              /\ LET row == demands'[Len(demands')]
                 IN  /\ row.demand_floor = request'.demand_floor
                     /\ row.demand_time = request'.demand_time
                     /\ response'.body = row
       /\ response'.op = "read_states" => response'.body = states'
       /\ response'.op = "read_demands" => response'.body = demands'
       /\ request'.op \in {"read_states", "read_demands", "get_dataset"} =>
              states' = states /\ demands' = demands]_vars

\* rows were created and then all read back
C10_Witness ==
    /\ response.op = "read_states"
    /\ Len(states) = 2
    /\ Len(demands) = 1
    /\ response.body = states

====
